---- MODULE Spec2Model ----
(***************************************************************************)
(* Model of weval's static module image (src/image.rs) and intrinsic       *)
(* discovery (src/intrinsics.rs).                                          *)
(*                                                                         *)
(* Scaling.  The address arithmetic of the program is kept, its sizes are  *)
(* scaled: a page has WASM_PAGE bytes (65536 in the source) and the u32    *)
(* address type has U32_MOD = WASM_PAGE * WASM_PAGE values (2^32 =         *)
(* 65536 * 65536 in the source), so that a memory of WASM_PAGE pages       *)
(* fills the whole u32 address space exactly as a memory of 65536 pages    *)
(* does.  usize is 64 bits wide: sums computed in usize never wrap.  Bytes *)
(* are real bytes (0..255) and read/write widths are the real widths in    *)
(* bytes.  Values wider than 16 bits are held as little-endian sequences   *)
(* of 16-bit limbs (a u32 is <<lo16, hi16>>), so that x << 32 | y is the   *)
(* concatenation of the limbs of y and x.                                  *)
(***************************************************************************)
EXTENDS Integers, Sequences, FiniteSets, TLC

VARIABLES
    module,           \* the waffle Module the image is built from / written back to
    image,            \* the Image (NoImage before build_image has returned)
    pc,               \* "parsed" | "built" | "panicked" | "updated"
    ret,              \* the last call and its outcome
    prev,             \* the write_* call before the last one
    nwrites,          \* number of write_* calls made so far
    overflow_checks   \* build profile: TRUE = arithmetic overflow panics, FALSE = wraps

vars == <<module, image, pc, ret, prev, nwrites, overflow_checks>>

----------------------------------------------------------------------------
(* Bounds and scaled sizes *)

WASM_PAGE == 4
U32_MOD == WASM_PAGE * WASM_PAGE
MaxPages == WASM_PAGE
MaxSegs == 2
MaxWrites == 2

Addrs == 0 .. (U32_MOD - 1)

----------------------------------------------------------------------------
(* Option / Result values *)

None == [tag |-> "None"]
Some(x) == [tag |-> "Some", val |-> x]
Ok(x) == [tag |-> "Ok", val |-> x]
Err(e) == [tag |-> "Err", err |-> e]
Panic(m) == [tag |-> "Panic", msg |-> m]

OutOfBounds == Err("Out of bounds")
Utf8Error == Err("Utf8Error")
OverflowPanic == Panic("attempt to add with overflow")
UnwrapPanic == Panic("called Option::unwrap() on a None value")
IndexPanic == Panic("index out of range")
Diverges == [tag |-> "Diverges"]

NoImage == [tag |-> "NoImage"]
NoCall == [op |-> "none"]

\* entity ids are 0-based indices into the module's entity lists
Ids(list) == 0 .. (Len(list) - 1)
Entry(list, id) == list[id + 1]
First(list) == IF Len(list) > 0 THEN Some(0) ELSE None

----------------------------------------------------------------------------
(* build_image *)

\* crate::value::WasmVal::from_bits: the typed value of an initializer
FromBits(ty, bits) == Some([ty |-> ty, bits |-> bits])

\* image[offset..offset + data.len()].copy_from_slice(&data)
CopySegment(buf, seg) ==
    IF seg.offset + Len(seg.data) > Len(buf)
    THEN [ok |-> FALSE, buf |-> buf]
    ELSE [ok |-> TRUE,
          buf |-> [i \in 1 .. Len(buf) |->
                     IF (i - 1) >= seg.offset /\ (i - 1) < seg.offset + Len(seg.data)
                     THEN seg.data[i - seg.offset]
                     ELSE buf[i]]]

\* mutant: the segments are copied last to first
RECURSIVE CopySegmentsReversed(_, _)
CopySegmentsReversed(buf, segs) ==
    IF segs = <<>>
    THEN [ok |-> TRUE, buf |-> buf]
    ELSE LET r == CopySegment(buf, segs[Len(segs)])
         IN  IF r.ok THEN CopySegmentsReversed(r.buf, SubSeq(segs, 1, Len(segs) - 1)) ELSE r

RECURSIVE CopySegments(_, _)
CopySegments(buf, segs) ==
    IF segs = <<>>
    THEN [ok |-> TRUE, buf |-> buf]
    ELSE LET r == CopySegment(buf, Head(segs))
         IN  IF r.ok THEN CopySegments(r.buf, Tail(segs)) ELSE r

maybe_mem_image(mem) ==
    LET len == mem.initial_pages * WASM_PAGE
        zero == [i \in 1 .. len |-> 0]
        r == CopySegments(zero, mem.segments)
    IN  IF r.ok THEN Some([image |-> r.buf, len |-> len]) ELSE IndexPanic

GlobalValue(data) ==
    IF data.value.tag = "Some" THEN FromBits(data.ty, data.value.val) ELSE None

ImageGlobals(m) ==
    LET kept == {g \in Ids(m.globals) : GlobalValue(Entry(m.globals, g)).tag = "Some"}
    IN  [g \in kept |-> GlobalValue(Entry(m.globals, g)).val]

ImageTables(m) ==
    [t \in Ids(m.tables) |->
        IF Entry(m.tables, t).func_elements.tag = "Some"
        THEN Entry(m.tables, t).func_elements.val
        ELSE <<>>]

build_image(m) ==
    LET mems == [id \in Ids(m.memories) |-> maybe_mem_image(Entry(m.memories, id))]
        kept == {id \in Ids(m.memories) : mems[id].tag = "Some"}
    IN  IF \E id \in Ids(m.memories) : mems[id].tag = "Panic"
        THEN IndexPanic
        ELSE Ok([memories |-> [id \in kept |-> mems[id].val],
                 globals |-> ImageGlobals(m),
                 tables |-> ImageTables(m),
                 stack_pointer |-> First(m.globals),
                 main_heap |-> First(m.memories),
                 main_table |-> First(m.tables)])

----------------------------------------------------------------------------
(* Image: bounds-checked typed reads *)

\* addr.checked_add(size): None on u32 overflow
checked_add(a, b) == IF a + b >= U32_MOD THEN None ELSE Some(a + b)

\* a + b on u32: panics when overflow checks are compiled in, wraps otherwise
add_u32(oc, a, b) ==
    IF a + b >= U32_MOD
    THEN IF oc THEN OverflowPanic ELSE Ok((a + b) % U32_MOD)
    ELSE Ok(a + b)

\* mutant: the end of the range is computed with wrapping addition
can_read_wrapping(img, memory, addr, size) ==
    IF memory \notin DOMAIN img.memories THEN FALSE
    ELSE ((addr + size) % U32_MOD) <= img.memories[memory].len

can_read(img, memory, addr, size) ==
    LET end == checked_add(addr, size)
    IN  IF end.tag = "None" THEN FALSE
        ELSE IF memory \notin DOMAIN img.memories THEN FALSE
        ELSE end.val <= img.memories[memory].len

\* &image.image[from..to]: the bytes at from..to-1
Slice(buf, from, to) == [i \in 1 .. (to - from) |-> buf[from + i]]

u16_from_le_bytes(s) == s[1] + 256 * s[2]
u32_from_le_bytes(s) == <<s[1] + 256 * s[2], s[3] + 256 * s[4]>>
\* u64::from(high) << 32 | u64::from(low), u128::from(high) << 64 | u128::from(low)
shl_or(high, low) == low \o high

read_u8(img, id, addr) ==
    IF id \notin DOMAIN img.memories THEN UnwrapPanic
    ELSE LET m == img.memories[id]
         IN  IF addr < Len(m.image) THEN Ok(m.image[addr + 1]) ELSE OutOfBounds

read_u16(img, id, addr) ==
    IF id \notin DOMAIN img.memories THEN UnwrapPanic
    ELSE LET m == img.memories[id]
         IN  IF addr + 2 > m.len THEN OutOfBounds
             ELSE IF addr + 2 > Len(m.image) THEN IndexPanic
             ELSE Ok(u16_from_le_bytes(Slice(m.image, addr, addr + 2)))

read_u32(img, id, addr) ==
    IF id \notin DOMAIN img.memories THEN UnwrapPanic
    ELSE LET m == img.memories[id]
         IN  IF addr + 4 > m.len THEN OutOfBounds
             ELSE IF addr + 4 > Len(m.image) THEN IndexPanic
             ELSE Ok(u32_from_le_bytes(Slice(m.image, addr, addr + 4)))

read_u64(img, oc, id, addr) ==
    LET low == read_u32(img, id, addr)
    IN  IF low.tag # "Ok" THEN low
        ELSE LET next == add_u32(oc, addr, 4)
             IN  IF next.tag # "Ok" THEN next
                 ELSE LET high == read_u32(img, id, next.val)
                      IN  IF high.tag # "Ok" THEN high
                          ELSE Ok(shl_or(high.val, low.val))

read_u128(img, oc, id, addr) ==
    LET low == read_u64(img, oc, id, addr)
    IN  IF low.tag # "Ok" THEN low
        ELSE LET next == add_u32(oc, addr, 8)
             IN  IF next.tag # "Ok" THEN next
                 ELSE LET high == read_u64(img, oc, id, next.val)
                      IN  IF high.tag # "Ok" THEN high
                          ELSE Ok(shl_or(high.val, low.val))

\* std::str::from_utf8: whether the bytes are well-formed UTF-8
Cont(b) == b >= 128 /\ b <= 191
RECURSIVE Utf8Valid(_)
Utf8Valid(bs) ==
    IF bs = <<>> THEN TRUE
    ELSE LET b == bs[1]
             n == Len(bs)
             rest(k) == SubSeq(bs, k + 1, n)
         IN  IF b < 128 THEN Utf8Valid(rest(1))
             ELSE IF b >= 194 /\ b <= 223
                  THEN n >= 2 /\ Cont(bs[2]) /\ Utf8Valid(rest(2))
             ELSE IF b >= 224 /\ b <= 239
                  THEN /\ n >= 3
                       /\ CASE b = 224 -> bs[2] >= 160 /\ bs[2] <= 191
                            [] b = 237 -> bs[2] >= 128 /\ bs[2] <= 159
                            [] OTHER -> Cont(bs[2])
                       /\ Cont(bs[3])
                       /\ Utf8Valid(rest(3))
             ELSE IF b >= 240 /\ b <= 244
                  THEN /\ n >= 4
                       /\ CASE b = 240 -> bs[2] >= 144 /\ bs[2] <= 191
                            [] b = 244 -> bs[2] >= 128 /\ bs[2] <= 143
                            [] OTHER -> Cont(bs[2])
                       /\ Cont(bs[3])
                       /\ Cont(bs[4])
                       /\ Utf8Valid(rest(4))
             ELSE FALSE

from_utf8(bs) == IF Utf8Valid(bs) THEN Ok(bs) ELSE Utf8Error

\* the loop of read_str.  The image does not change during the call, so once
\* more than U32_MOD bytes have been pushed the wrapped address has gone round the
\* whole address space without meeting a zero byte and the loop never ends.
RECURSIVE read_str_loop(_, _, _, _, _)
read_str_loop(img, oc, id, addr, bytes) ==
    LET byte == read_u8(img, id, addr)
    IN  IF byte.tag # "Ok" THEN byte
        ELSE IF byte.val = 0 THEN from_utf8(bytes)
        ELSE LET next == add_u32(oc, addr, 1)
             IN  IF next.tag # "Ok" THEN next
                 ELSE IF Len(bytes) >= U32_MOD THEN Diverges
                 ELSE read_str_loop(img, oc, id, next.val, Append(bytes, byte.val))

read_str(img, oc, id, addr) == read_str_loop(img, oc, id, addr, <<>>)

----------------------------------------------------------------------------
(* Image: bounds-checked writes, write-back *)

\* value.to_le_bytes() of a u32 held as <<lo16, hi16>>
\* mutant: the bytes of the value most significant first
u32_to_be_bytes(v) == <<v[2] \div 256, v[2] % 256, v[1] \div 256, v[1] % 256>>

u32_to_le_bytes(v) == <<v[1] % 256, v[1] \div 256, v[2] % 256, v[2] \div 256>>

\* the image with the buffer of memory id replaced
WithBuffer(img, id, buf) ==
    [img EXCEPT !.memories = [@ EXCEPT ![id] = [@ EXCEPT !.image = buf]]]

write_u8(img, id, addr, value) ==
    IF id \notin DOMAIN img.memories THEN [res |-> UnwrapPanic, img |-> img]
    ELSE LET m == img.memories[id]
         IN  IF addr < Len(m.image)
             THEN [res |-> Ok(<<>>),
                   img |-> WithBuffer(img, id, [m.image EXCEPT ![addr + 1] = value])]
             ELSE [res |-> OutOfBounds, img |-> img]

\* mutant: no bounds check before the copy, the bytes that fit are written
write_u32_partial(img, id, addr, value) ==
    IF id \notin DOMAIN img.memories THEN [res |-> UnwrapPanic, img |-> img]
    ELSE LET m == img.memories[id]
             bytes == u32_to_le_bytes(value)
             copied == [i \in 1 .. Len(m.image) |->
                          IF (i - 1) >= addr /\ (i - 1) < addr + 4
                          THEN bytes[i - addr]
                          ELSE m.image[i]]
         IN  [res |-> IF addr + 4 > m.len THEN OutOfBounds ELSE Ok(<<>>),
              img |-> WithBuffer(img, id, copied)]

write_u32(img, id, addr, value) ==
    IF id \notin DOMAIN img.memories THEN [res |-> UnwrapPanic, img |-> img]
    ELSE LET m == img.memories[id]
             bytes == u32_to_le_bytes(value)
         IN  IF addr + 4 > m.len THEN [res |-> OutOfBounds, img |-> img]
             ELSE IF addr + 4 > Len(m.image) THEN [res |-> IndexPanic, img |-> img]
             ELSE [res |-> Ok(<<>>),
                   img |-> WithBuffer(img, id,
                              [i \in 1 .. Len(m.image) |->
                                  IF (i - 1) >= addr /\ (i - 1) < addr + 4
                                  THEN bytes[i - addr]
                                  ELSE m.image[i]])]

\* mutant: the snapshot is pushed without clearing the segments first
update_push_only(m, im) ==
    [m EXCEPT !.memories =
        [i \in 1 .. Len(m.memories) |->
            IF (i - 1) \in DOMAIN im.memories
            THEN [m.memories[i] EXCEPT
                    !.segments = Append(@, [offset |-> 0, data |-> im.memories[i - 1].image])]
            ELSE m.memories[i]]]

\* segments.clear(); segments.push(MemorySegment { offset: 0, data: image.clone() })
update(m, im) ==
    [m EXCEPT !.memories =
        [i \in 1 .. Len(m.memories) |->
            IF (i - 1) \in DOMAIN im.memories
            THEN [m.memories[i] EXCEPT
                    !.segments = <<[offset |-> 0, data |-> im.memories[i - 1].image]>>]
            ELSE m.memories[i]]]

----------------------------------------------------------------------------
(* Modules the image is built from *)

MemoryData(pages, segs) == [initial_pages |-> pages, segments |-> segs]
Segment(off, data) == [offset |-> off, data |-> data]
GlobalData(ty, value) == [ty |-> ty, value |-> value]
TableData(elems) == [func_elements |-> elems]

ModuleOf(mems, globals, tables) ==
    [memories |-> mems, globals |-> globals, tables |-> tables,
     imports |-> <<>>, exports |-> <<>>, funcs |-> <<>>, signatures |-> <<>>]

SeqsUpTo(S, n) == UNION {[1 .. k -> S] : k \in 0 .. n}

\* a global without constant initializer (an imported global), and one with
GlobalKinds == {GlobalData("I32", None), GlobalData("I32", Some(1024))}
GlobalLists == SeqsUpTo(GlobalKinds, 2)
TableLists == {<<>>, <<TableData(None)>>, <<TableData(Some(<<0, 1>>))>>}

PlainMemory == MemoryData(1, <<>>)

\* modules for build_image: every list of up to MaxSegs segments
BuildData == {<<7>>, <<8, 9>>}
BuildOffsets == {0, 1, WASM_PAGE}
BuildSegments == {Segment(o, d) : o \in BuildOffsets, d \in BuildData}
BuildMemories ==
    {MemoryData(p, segs) : p \in 0 .. MaxPages, segs \in SeqsUpTo(BuildSegments, MaxSegs)}
BuildMemoryLists ==
    {<<>>} \cup {<<m>> : m \in BuildMemories}
           \cup {<<PlainMemory, m>> : m \in {MemoryData(p, <<>>) : p \in 0 .. MaxPages}}
BuildModules ==
    {ModuleOf(ms, gs, ts) : ms \in BuildMemoryLists, gs \in GlobalLists, ts \in TableLists}

\* modules for the reads: strings, ill-formed UTF-8, a buffer without a zero byte
Ramp == [i \in 1 .. U32_MOD |-> i]
ReadData == {<<104, 105>>, <<195, 169, 65>>, <<255>>, <<65, 169>>, Ramp}
ReadOffsets == {0, 1, WASM_PAGE - 2, U32_MOD - 2}
ReadSegmentLists ==
    {<<>>} \cup {<<Segment(o, d)>> : o \in ReadOffsets, d \in ReadData}
ReadMemories == {MemoryData(p, segs) : p \in 0 .. MaxPages, segs \in ReadSegmentLists}
ReadMemoryLists ==
    {<<>>} \cup {<<m>> : m \in ReadMemories} \cup {<<m, PlainMemory>> : m \in ReadMemories}
ReadModules ==
    {ModuleOf(ms, <<GlobalData("I32", Some(1024))>>, <<TableData(None)>>) :
        ms \in ReadMemoryLists}

\* modules for the writes: memories with no, one and several segments
WriteMemoryLists ==
    {<<>>,
     <<MemoryData(1, <<>>)>>,
     <<MemoryData(2, <<Segment(1, <<104, 105>>)>>)>>,
     <<MemoryData(MaxPages, <<Segment(0, <<7>>), Segment(0, <<8, 9>>), Segment(5, <<1>>)>>)>>,
     <<MemoryData(3, <<Segment(2, <<8, 9>>), Segment(6, <<7>>)>>), PlainMemory>>}
WriteModules ==
    {ModuleOf(ms, <<GlobalData("I32", Some(1024))>>, <<TableData(None)>>) :
        ms \in WriteMemoryLists}

\* inputs of the calls
MemIds == Ids(module.memories) \cup {Len(module.memories)}
Sizes == {0, 1, 4, U32_MOD - 1}
WriteAddrs == {0, 1, 4, 5, U32_MOD - 4, U32_MOD - 1}
U8Vals == {0, 200}
U32Vals == {<<513, 1027>>, <<65535, 33023>>}

----------------------------------------------------------------------------
(* Actions *)

Call(op, id, addr, arg, res) == [op |-> op, id |-> id, addr |-> addr, arg |-> arg, res |-> res]

\* a panic unwinds out of the caller: nothing runs after it
After(res) == IF res.tag = "Panic" THEN "panicked" ELSE pc

Build ==
    /\ pc = "parsed"
    /\ LET r == build_image(module)
       IN  /\ image' = IF r.tag = "Ok" THEN r.val ELSE NoImage
           /\ pc' = IF r.tag = "Ok" THEN "built" ELSE "panicked"
           /\ ret' = [op |-> "build_image", res |-> r.tag]
    /\ UNCHANGED <<module, prev, nwrites, overflow_checks>>

Returned(call) ==
    /\ ret' = call
    /\ pc' = After(call.res)
    /\ UNCHANGED <<module, image, prev, nwrites, overflow_checks>>

\* calls are sequential: the caller holds the result of at most one read
ReadOps == {"can_read", "read_u8", "read_u16", "read_u32", "read_u64", "read_u128", "read_str"}
Idle == ret.op \notin ReadOps

\* the caller has taken the result of the read and goes on
Continue ==
    /\ pc = "built"
    /\ ~Idle
    /\ ret' = NoCall
    /\ UNCHANGED <<module, image, pc, prev, nwrites, overflow_checks>>

CanRead ==
    /\ pc = "built"
    /\ Idle
    /\ \E id \in MemIds, addr \in Addrs, size \in Sizes :
          Returned(Call("can_read", id, addr, size, Ok(can_read(image, id, addr, size))))

ReadU8 ==
    /\ pc = "built"
    /\ Idle
    /\ \E id \in MemIds, addr \in Addrs :
          Returned(Call("read_u8", id, addr, 1, read_u8(image, id, addr)))

ReadU16 ==
    /\ pc = "built"
    /\ Idle
    /\ \E id \in MemIds, addr \in Addrs :
          Returned(Call("read_u16", id, addr, 2, read_u16(image, id, addr)))

ReadU32 ==
    /\ pc = "built"
    /\ Idle
    /\ \E id \in MemIds, addr \in Addrs :
          Returned(Call("read_u32", id, addr, 4, read_u32(image, id, addr)))

ReadU64 ==
    /\ pc = "built"
    /\ Idle
    /\ \E id \in MemIds, addr \in Addrs :
          Returned(Call("read_u64", id, addr, 8, read_u64(image, overflow_checks, id, addr)))

ReadU128 ==
    /\ pc = "built"
    /\ Idle
    /\ \E id \in MemIds, addr \in Addrs :
          Returned(Call("read_u128", id, addr, 16, read_u128(image, overflow_checks, id, addr)))

ReadStr ==
    /\ pc = "built"
    /\ Idle
    /\ \E id \in MemIds, addr \in Addrs :
          Returned(Call("read_str", id, addr, 0, read_str(image, overflow_checks, id, addr)))

Wrote(op, id, addr, value, w) ==
    /\ image' = w.img
    /\ ret' = Call(op, id, addr, value, w.res)
    /\ prev' = ret
    /\ pc' = After(w.res)
    /\ nwrites' = nwrites + 1
    /\ UNCHANGED <<module, overflow_checks>>

WriteU8 ==
    /\ pc = "built"
    /\ nwrites < MaxWrites
    /\ \E id \in MemIds, addr \in WriteAddrs, value \in U8Vals :
          Wrote("write_u8", id, addr, value, write_u8(image, id, addr, value))

WriteU32 ==
    /\ pc = "built"
    /\ nwrites < MaxWrites
    /\ \E id \in MemIds, addr \in WriteAddrs, value \in U32Vals :
          Wrote("write_u32", id, addr, value, write_u32(image, id, addr, value))

Update ==
    /\ pc = "built"
    /\ module' = update(module, image)
    /\ pc' = "updated"
    /\ ret' = [op |-> "update", before |-> module.memories]
    /\ prev' = ret
    /\ UNCHANGED <<image, nwrites, overflow_checks>>

----------------------------------------------------------------------------
(* Specifications *)

InitWith(modules) ==
    /\ module \in modules
    /\ image = NoImage
    /\ pc = "parsed"
    /\ ret = NoCall
    /\ prev = NoCall
    /\ nwrites = 0
    /\ overflow_checks \in BOOLEAN

\* build_image over every module shape
InitBuild == InitWith(BuildModules)
NextBuild == Build
SpecBuild == InitBuild /\ [][NextBuild]_vars

\* build_image, then reads of the snapshot
InitRead == InitWith(ReadModules)
NextRead ==
    \/ Build
    \/ CanRead
    \/ ReadU8
    \/ ReadU16
    \/ ReadU32
    \/ ReadU64
    \/ ReadU128
    \/ ReadStr
    \/ Continue
SpecRead == InitRead /\ [][NextRead]_vars

\* build_image, writes to the snapshot, write-back
InitWrite == InitWith(WriteModules)
NextWrite ==
    \/ Build
    \/ WriteU8
    \/ WriteU32
    \/ Update
SpecWrite == InitWrite /\ [][NextWrite]_vars

----------------------------------------------------------------------------
(* Discovery of intrinsics and of exported constants *)

\* mutant: only the parameter types are compared
sig_matches_params_only(m, f, in_tys, out_tys) ==
    LET sig == Entry(m.signatures, Entry(m.funcs, f).sig)
    IN  sig.params = in_tys

sig_matches(m, f, in_tys, out_tys) ==
    LET sig == Entry(m.signatures, Entry(m.funcs, f).sig)
    IN  sig.params = in_tys /\ sig.returns = out_tys

\* iter().find(..): the position of the first of the elements at positions hits,
\* 0 if there is none
FirstIndex(hits) ==
    IF hits = {} THEN 0 ELSE CHOOSE i \in hits : \A j \in hits : i <= j

find_imported_intrinsic(m, name, in_tys, out_tys) ==
    LET i == FirstIndex({k \in 1 .. Len(m.imports) :
                            m.imports[k].module = "weval" /\ m.imports[k].name = name})
    IN  IF i = 0 THEN None
        ELSE LET im == m.imports[i]
             IN  IF im.kind.tag = "Func" /\ sig_matches(m, im.kind.f, in_tys, out_tys)
                 THEN Some(im.kind.f)
                 ELSE None

find_exported_func(m, name, in_tys, out_tys) ==
    LET i == FirstIndex({k \in 1 .. Len(m.exports) : m.exports[k].name = name})
    IN  IF i = 0 THEN None
        ELSE LET ex == m.exports[i]
             IN  IF ex.kind.tag = "Func" /\ sig_matches(m, ex.kind.f, in_tys, out_tys)
                 THEN Some(ex.kind.f)
                 ELSE None

IsI32Const(def) == def.tag = "Operator" /\ def.op.tag = "I32Const"
AssertPanic == Panic("assertion failed")

find_global_data_by_exported_func(m, name) ==
    LET f == find_exported_func(m, name, <<>>, <<"I32">>)
    IN  IF f.tag = "None" THEN None
        ELSE IF Entry(m.funcs, f.val).body.tag = "None" THEN None
        ELSE LET body == Entry(m.funcs, f.val).body.val
                 term == Entry(body.blocks, body.entry).terminator
             IN  CASE term.tag = "Return" ->
                        IF Len(term.values) # 1 THEN AssertPanic
                        ELSE LET def == Entry(body.values, term.values[1])
                             IN  IF IsI32Const(def) THEN Some(def.op.value) ELSE None
                   [] term.tag = "Br" ->
                        IF Len(term.target.args) # 1 THEN AssertPanic
                        ELSE LET def == Entry(body.values, term.target.args[1])
                                 target == Entry(body.blocks, term.target.block)
                             IN  IF ~IsI32Const(def) THEN None
                                 ELSE IF /\ target.terminator.tag = "Return"
                                         /\ Len(target.terminator.values) = 1
                                      THEN IF target.params = <<>> THEN IndexPanic
                                           ELSE IF target.terminator.values[1] = target.params[1][2]
                                                THEN Some(def.op.value)
                                                ELSE None
                                      ELSE None
                   [] OTHER -> None

----------------------------------------------------------------------------
(* Claims about build_image *)

Present(opt, keys) == opt.tag = "Some" => opt.val \in keys

\* C1: in the Image returned by build_image every role pointer that is present is
\* a key of its mapping: stack_pointer of globals, main_heap of memories, main_table
\* of tables -- also when the first global has no constant initializer.
C1_RolePointersAreKeys ==
    pc = "built" =>
        /\ Present(image.stack_pointer, DOMAIN image.globals)
        /\ Present(image.main_heap, DOMAIN image.memories)
        /\ Present(image.main_table, DOMAIN image.tables)

Covers(seg, a) == a >= seg.offset /\ a < seg.offset + Len(seg.data)
InBounds(seg, len) == seg.offset + Len(seg.data) <= len

SizedByPages(id) ==
    LET mem == Entry(module.memories, id)
        im == image.memories[id]
    IN  /\ im.len = mem.initial_pages * WASM_PAGE
        /\ Len(im.image) = im.len

\* C2 as stated: every in-bounds segment is found intact in the built buffer,
\* whatever the order and overlap of the segments, and uncovered bytes are zero.
C2_EverySegmentIntact ==
    pc = "built" =>
        /\ DOMAIN image.memories = Ids(module.memories)
        /\ \A id \in Ids(module.memories) :
              LET mem == Entry(module.memories, id)
                  im == image.memories[id]
              IN  /\ SizedByPages(id)
                  /\ \A k \in 1 .. Len(mem.segments) :
                        InBounds(mem.segments[k], im.len) =>
                            \A a \in 0 .. (im.len - 1) :
                                Covers(mem.segments[k], a) =>
                                    im.image[a + 1] =
                                        mem.segments[k].data[a - mem.segments[k].offset + 1]
                  /\ \A a \in 0 .. (im.len - 1) :
                        (\A k \in 1 .. Len(mem.segments) : ~Covers(mem.segments[k], a))
                            => im.image[a + 1] = 0

\* the byte the declaration gives address a: that of the last segment covering it
DeclaredByte(segs, a) ==
    LET ks == {k \in 1 .. Len(segs) : Covers(segs[k], a)}
    IN  IF ks = {} THEN 0
        ELSE LET k == CHOOSE x \in ks : \A y \in ks : y <= x
             IN  segs[k].data[a - segs[k].offset + 1]

AllInBounds(mem) ==
    \A k \in 1 .. Len(mem.segments) :
        InBounds(mem.segments[k], mem.initial_pages * WASM_PAGE)

\* C2 amended: build_image returns an Image exactly when every segment of every
\* memory lies within its buffer (otherwise it fails fatally); then each buffer has
\* initial_pages * WASM_PAGE bytes, each byte covered by a segment holds the byte of
\* the last declared segment covering it, and every other byte is zero.
C2_LastSegmentWins ==
    /\ pc = "built" =>
          /\ DOMAIN image.memories = Ids(module.memories)
          /\ \A id \in Ids(module.memories) :
                /\ SizedByPages(id)
                /\ AllInBounds(Entry(module.memories, id))
                /\ \A a \in 0 .. (image.memories[id].len - 1) :
                      image.memories[id].image[a + 1] =
                          DeclaredByte(Entry(module.memories, id).segments, a)
    /\ pc = "panicked" =>
          \E id \in Ids(module.memories) : ~AllInBounds(Entry(module.memories, id))

\* an Image built from a memory with two overlapping segments, the later of which
\* has replaced a byte of the earlier one
C2_Witness ==
    /\ pc = "built"
    /\ \E id \in Ids(module.memories) :
          LET segs == Entry(module.memories, id).segments
          IN  \E j \in 1 .. Len(segs), k \in 1 .. Len(segs) :
                 /\ j < k
                 /\ \E a \in Addrs :
                       /\ Covers(segs[j], a) /\ Covers(segs[k], a)
                       /\ image.memories[id].image[a + 1] # segs[j].data[a - segs[j].offset + 1]
                       /\ image.memories[id].image[a + 1] = segs[k].data[a - segs[k].offset + 1]

----------------------------------------------------------------------------
(* Claims about the reads *)

Known(id) == id \in DOMAIN image.memories
BytesAt(id, addr, w) == [i \in 1 .. w |-> image.memories[id].image[addr + i]]

\* the little-endian value of a byte string, in the representation of its width
LittleEndian(bs) ==
    IF Len(bs) = 1 THEN bs[1]
    ELSE IF Len(bs) = 2 THEN bs[1] + 256 * bs[2]
    ELSE [i \in 1 .. (Len(bs) \div 2) |-> bs[2 * i - 1] + 256 * bs[2 * i]]

FixedReads == {"read_u8", "read_u16", "read_u32", "read_u64", "read_u128"}

\* C4: a read of width w in {1,2,4,8,16} of a memory of the Image returns the
\* out-of-bounds error when addr + w > len and the little-endian value of the w
\* bytes at addr otherwise, at every u32 address; it never fails fatally and never
\* reads from a wrapped-around address.
C4_ReadsBoundsChecked ==
    (ret.op \in FixedReads /\ Known(ret.id)) =>
        ret.res = IF ret.addr + ret.arg > image.memories[ret.id].len
                  THEN OutOfBounds
                  ELSE Ok(LittleEndian(BytesAt(ret.id, ret.addr, ret.arg)))

\* the string at addr: the bytes up to the first zero byte at or after addr
StringAt(id, addr) ==
    LET len == image.memories[id].len
        zeros == {a \in addr .. (len - 1) : image.memories[id].image[a + 1] = 0}
    IN  IF zeros = {} THEN OutOfBounds
        ELSE LET z == CHOOSE x \in zeros : \A y \in zeros : x <= y
                 bytes == BytesAt(id, addr, z - addr)
             IN  IF Utf8Valid(bytes) THEN Ok(bytes) ELSE Utf8Error

\* C8: read_str ends and returns the bytes from the start address up to the first
\* zero byte, or the out-of-bounds error when there is no zero byte between the
\* start address and the end of the buffer, or a decoding error when the bytes are
\* not well-formed UTF-8; it never goes on from a wrapped-around address.
C8_ReadStr ==
    (ret.op = "read_str" /\ Known(ret.id)) => ret.res = StringAt(ret.id, ret.addr)

\* C9: can_read(m, addr, size) is true exactly when m is a memory of the Image,
\* addr + size does not overflow u32 and addr + size <= len of m; it never fails.
C9_CanRead ==
    ret.op = "can_read" =>
        /\ ret.res.tag = "Ok"
        /\ ret.res.val = (/\ Known(ret.id)
                          /\ ret.addr + ret.arg < U32_MOD
                          /\ ret.addr + ret.arg <= image.memories[ret.id].len)

\* can_read has answered true for a range, false for an unknown memory and false
\* for a range whose end overflows although it ends at the end of the buffer
C9_Witness ==
    /\ ret.op = "can_read"
    /\ Known(ret.id)
    /\ ret.res = Ok(FALSE)
    /\ ret.addr + ret.arg = U32_MOD
    /\ image.memories[ret.id].len = U32_MOD

----------------------------------------------------------------------------
(* Claims about the writes and the write-back *)

WriteOps == {"write_u8", "write_u32"}
Succeeded(call, op) == call.op = op /\ call.res.tag = "Ok"

\* C3: after any writes followed by update(module, image), every memory of the
\* Image has in the module exactly one segment, at offset 0, holding the current
\* snapshot buffer, however many segments it had before; memories of the module
\* that are not in the Image keep their segments.
C3_UpdateSingleSegment ==
    pc = "updated" =>
        /\ Len(module.memories) = Len(ret.before)
        /\ \A id \in Ids(module.memories) :
              IF Known(id)
              THEN Entry(module.memories, id) =
                      [Entry(ret.before, id) EXCEPT
                          !.segments = <<Segment(0, image.memories[id].image)>>]
              ELSE Entry(module.memories, id) = Entry(ret.before, id)

\* a write-back after a successful write, of a memory that had several segments
\* and whose snapshot is no longer what the segments declared
C3_Witness ==
    /\ pc = "updated"
    /\ prev.op \in WriteOps /\ prev.res.tag = "Ok"
    /\ Len(Entry(ret.before, prev.id).segments) >= 2
    /\ \E a \in 0 .. (image.memories[prev.id].len - 1) :
          image.memories[prev.id].image[a + 1] #
              DeclaredByte(Entry(ret.before, prev.id).segments, a)

\* C5: write_u8 followed by read_u8 at the same address returns the value written,
\* and so does write_u32 followed by read_u32; after write_u32(m, a, lo) and
\* write_u32(m, a + 4, hi) have both succeeded, read_u64(m, a) returns
\* lo | hi << 32, which is read_u32(a) | read_u32(a + 4) << 32.
C5_RoundTrip ==
    /\ Succeeded(ret, "write_u8") =>
          read_u8(image, ret.id, ret.addr) = Ok(ret.arg)
    /\ Succeeded(ret, "write_u32") =>
          read_u32(image, ret.id, ret.addr) = Ok(ret.arg)
    /\ (/\ Succeeded(prev, "write_u32")
        /\ Succeeded(ret, "write_u32")
        /\ ret.id = prev.id
        /\ ret.addr = prev.addr + 4) =>
          /\ read_u64(image, overflow_checks, ret.id, prev.addr) =
                Ok(<<prev.arg[1], prev.arg[2], ret.arg[1], ret.arg[2]>>)
          /\ read_u64(image, overflow_checks, ret.id, prev.addr) =
                Ok(shl_or(read_u32(image, ret.id, prev.addr + 4).val,
                          read_u32(image, ret.id, prev.addr).val))

\* two successful write_u32 calls at a and a + 4 with different values
C5_Witness ==
    /\ Succeeded(prev, "write_u32")
    /\ Succeeded(ret, "write_u32")
    /\ ret.id = prev.id
    /\ ret.addr = prev.addr + 4
    /\ ret.arg # prev.arg

Shape(img) ==
    [keys |-> DOMAIN img.memories,
     lens |-> [id \in DOMAIN img.memories |->
                  <<img.memories[id].len, Len(img.memories[id].image)>>],
     globals |-> img.globals,
     tables |-> img.tables,
     roles |-> <<img.stack_pointer, img.main_heap, img.main_table>>]

\* what a write_* step (the call ret' on a memory of the Image) may change
WriteFrame ==
    /\ Shape(image') = Shape(image)
    /\ module' = module
    /\ \A id \in DOMAIN image.memories :
          /\ Len(image'.memories[id].image) = image'.memories[id].len
          /\ \A a \in 0 .. (image.memories[id].len - 1) :
                image'.memories[id].image[a + 1] # image.memories[id].image[a + 1] =>
                    /\ ret'.res.tag = "Ok"
                    /\ id = ret'.id
                    /\ a >= ret'.addr
                    /\ a < ret'.addr + (IF ret'.op = "write_u8" THEN 1 ELSE 4)
    /\ ret'.res.tag \in {"Ok", "Err"}
    /\ ret'.res.tag = "Err" => (ret'.res = OutOfBounds /\ image' = image)

\* C10: a successful write of width w at addr changes at most the bytes
\* [addr, addr + w) of the named memory, a write that fails with the out-of-bounds
\* error changes nothing, and no write changes the set of memories, a buffer's
\* length, another memory's bytes, the globals, the tables or the role pointers.
C10_WriteFrame ==
    [][(nwrites' = nwrites + 1 /\ ret'.id \in DOMAIN image.memories) => WriteFrame]_vars

\* a write_u32 has failed with the out-of-bounds error after an earlier write
\* had succeeded
C10_Witness ==
    /\ ret.op = "write_u32" /\ ret.res = OutOfBounds /\ Known(ret.id)
    /\ ret.addr < image.memories[ret.id].len
    /\ prev.op \in WriteOps /\ prev.res.tag = "Ok"

----------------------------------------------------------------------------
(* Modules for the discovery of intrinsics *)

MaxImports == 2

Signatures ==
    <<[params |-> <<"I32">>, returns |-> <<"I32">>],
      [params |-> <<"I32">>, returns |-> <<>>],
      [params |-> <<"I32", "I64">>, returns |-> <<"I32">>],
      [params |-> <<>>, returns |-> <<"I32">>]>>

Names == {"assume.const.memory", "read.reg"}
ImportDecls ==
    {[module |-> ns, name |-> n, func |-> fn, sig |-> sg] :
        ns \in {"weval", "env"}, n \in Names, fn \in BOOLEAN, sg \in 0 .. 2}
ImportDeclLists ==
    {ds \in SeqsUpTo(ImportDecls, MaxImports) :
        \A i \in 1 .. Len(ds) : ~ds[i].func => ds[i].sig = 0}

\* every function import declares a function of its own: the k-th function
\* import is function k - 1
FuncsBefore(ds, i) == Cardinality({j \in 1 .. (i - 1) : ds[j].func})
ImportsOf(ds) ==
    [i \in 1 .. Len(ds) |->
        [module |-> ds[i].module, name |-> ds[i].name,
         kind |-> IF ds[i].func
                  THEN [tag |-> "Func", f |-> FuncsBefore(ds, i)]
                  ELSE [tag |-> "Global", g |-> 0]]]
FuncImportsOf(ds) ==
    LET fs == {i \in 1 .. Len(ds) : ds[i].func}
    IN  [k \in 1 .. Cardinality(fs) |->
            LET i == CHOOSE x \in fs : FuncsBefore(ds, x) = k - 1
            IN  [sig |-> ds[i].sig, body |-> None]]

IntrinsicModules ==
    {[memories |-> <<>>, globals |-> <<>>, tables |-> <<>>,
      imports |-> ImportsOf(ds), exports |-> <<>>,
      funcs |-> FuncImportsOf(ds), signatures |-> Signatures] : ds \in ImportDeclLists}

QueryTypes == {<<<<"I32">>, <<"I32">>>>, <<<<"I32">>, <<>>>>}

FindImportedIntrinsic ==
    /\ pc = "parsed"
    /\ \E name \in Names, tys \in QueryTypes :
          ret' = [op |-> "find_imported_intrinsic", name |-> name,
                  in_tys |-> tys[1], out_tys |-> tys[2],
                  res |-> find_imported_intrinsic(module, name, tys[1], tys[2])]
    /\ UNCHANGED <<module, image, pc, prev, nwrites, overflow_checks>>

InitIntrinsics == InitWith(IntrinsicModules)
NextIntrinsics == FindImportedIntrinsic
SpecIntrinsics == InitIntrinsics /\ [][NextIntrinsics]_vars

----------------------------------------------------------------------------
(* Claims about find_imported_intrinsic *)

\* import im is a function import "weval"/name of exactly the given type
FullMatch(im, name, in_tys, out_tys) ==
    /\ im.module = "weval"
    /\ im.name = name
    /\ im.kind.tag = "Func"
    /\ Entry(module.signatures, Entry(module.funcs, im.kind.f).sig).params = in_tys
    /\ Entry(module.signatures, Entry(module.funcs, im.kind.f).sig).returns = out_tys

\* C6 as stated: a function is returned if and only if the module contains a
\* function import "weval"/name with exactly these parameter and return types,
\* whatever other imports it has; the function returned is such an import.
C6_FoundIffSomeImportMatches ==
    ret.op = "find_imported_intrinsic" =>
        LET hits == {i \in 1 .. Len(module.imports) :
                        FullMatch(module.imports[i], ret.name, ret.in_tys, ret.out_tys)}
        IN  /\ ret.res.tag = "Some" <=> hits # {}
            /\ ret.res.tag = "Some" =>
                  \E i \in hits : module.imports[i].kind.f = ret.res.val

\* C6 amended: only the first import named "weval"/name in declaration order is
\* looked at: its function is returned if and only if it is a function import of
\* exactly these parameter and return types; otherwise, and when there is no
\* import of that namespace and name, nothing is returned.
C6_FirstNamedImportDecides ==
    ret.op = "find_imported_intrinsic" =>
        LET named == {i \in 1 .. Len(module.imports) :
                         /\ module.imports[i].module = "weval"
                         /\ module.imports[i].name = ret.name}
        IN  IF \E i \in named :
                   /\ \A j \in named : i <= j
                   /\ FullMatch(module.imports[i], ret.name, ret.in_tys, ret.out_tys)
            THEN \E i \in named :
                    /\ \A j \in named : i <= j
                    /\ ret.res = Some(module.imports[i].kind.f)
            ELSE ret.res = None

\* nothing is returned although a later import of the same namespace and name has
\* exactly the type asked for
C6_Witness ==
    /\ ret.op = "find_imported_intrinsic"
    /\ ret.res = None
    /\ Len(module.imports) = 2
    /\ FullMatch(module.imports[2], ret.name, ret.in_tys, ret.out_tys)
    /\ module.imports[1].module = "weval"
    /\ module.imports[1].name = ret.name

----------------------------------------------------------------------------
(* Modules for the extraction of an exported constant *)

\* the values of a function body: v0, v1 literals, v2 computed, v3..v5 block parameters
I32ConstDef(n) == [tag |-> "Operator", op |-> [tag |-> "I32Const", value |-> n]]
BodyValues ==
    <<I32ConstDef(42), I32ConstDef(7),
      [tag |-> "Operator", op |-> [tag |-> "I32Add"]],
      [tag |-> "BlockParam", block |-> 1, index |-> 0],
      [tag |-> "BlockParam", block |-> 1, index |-> 1],
      [tag |-> "BlockParam", block |-> 2, index |-> 0]>>

Return(vs) == [tag |-> "Return", values |-> vs]
Br(b, args) == [tag |-> "Br", target |-> [block |-> b, args |-> args]]
CondBr(c, b) == [tag |-> "CondBr", cond |-> c, if_true |-> [block |-> b, args |-> <<>>],
                 if_false |-> [block |-> b, args |-> <<>>]]
Unreachable == [tag |-> "Unreachable"]
Block(params, term) == [params |-> params, terminator |-> term]

\* block 1 takes as many parameters as the branch to it carries arguments
ParamsFor(args) == SubSeq(<<<<"I32", 3>>, <<"I32", 4>>>>, 1, Len(args))
BranchArgs == {<<>>, <<0>>, <<1>>, <<2>>, <<0, 1>>}
TargetTerminators(args) ==
    {Return(<<0>>), Return(<<2>>), Unreachable}
        \cup (IF Len(args) >= 1 THEN {Return(<<3>>), Br(2, <<3>>)} ELSE {})
        \cup (IF Len(args) >= 2 THEN {Return(<<4>>), Return(<<3, 4>>)} ELSE {})
LastBlock == Block(<<<<"I32", 5>>>>, Return(<<5>>))

BodyOf(entry_term, target_params, target_term) ==
    [entry |-> 0,
     blocks |-> <<Block(<<>>, entry_term), Block(target_params, target_term), LastBlock>>,
     values |-> BodyValues]

\* a return terminator with no or several values does not occur in a valid function
\* returning one i32: it stands for the corrupted input the assertion is there for
ReturnBodies ==
    {BodyOf(Return(vs), <<>>, Unreachable) : vs \in {<<0>>, <<1>>, <<2>>, <<>>, <<0, 1>>}}
BranchBodies ==
    UNION {{BodyOf(Br(1, args), ParamsFor(args), t) : t \in TargetTerminators(args)} :
              args \in BranchArgs}
OtherBodies ==
    {BodyOf(CondBr(2, 1), <<>>, Return(<<0>>)), BodyOf(Unreachable, <<>>, Unreachable)}
Bodies == ReturnBodies \cup BranchBodies \cup OtherBodies

ExportLists ==
    {<<>>,
     <<[name |-> "size", kind |-> [tag |-> "Func", f |-> 0]]>>,
     <<[name |-> "size", kind |-> [tag |-> "Global", g |-> 0]]>>,
     <<[name |-> "memory", kind |-> [tag |-> "Memory", m |-> 0]],
       [name |-> "size", kind |-> [tag |-> "Func", f |-> 0]]>>}

\* function 0 is of type () -> (i32), (i32) -> (i32) or (i32) -> (); it has a body
\* or is an import
ExtractModules ==
    {[memories |-> <<>>, globals |-> <<>>, tables |-> <<>>, imports |-> <<>>,
      exports |-> exs, funcs |-> <<[sig |-> sg, body |-> b]>>,
      signatures |-> Signatures] :
        exs \in ExportLists, sg \in {3, 0, 1}, b \in {None} \cup {Some(x) : x \in Bodies}}

FindGlobalData ==
    /\ pc = "parsed"
    /\ \E name \in {"size", "heap_base"} :
          LET r == find_global_data_by_exported_func(module, name)
          IN  /\ ret' = [op |-> "find_global_data_by_exported_func", name |-> name, res |-> r]
              /\ pc' = After(r)
    /\ UNCHANGED <<module, image, prev, nwrites, overflow_checks>>

InitExtract == InitWith(ExtractModules)
NextExtract == FindGlobalData
SpecExtract == InitExtract /\ [][NextExtract]_vars

----------------------------------------------------------------------------
(* Claims about find_global_data_by_exported_func *)

\* the body of the function exported under the name asked for, when that function
\* takes no parameter and returns one i32
Exported(name) ==
    LET named == {i \in 1 .. Len(module.exports) : module.exports[i].name = name}
    IN  /\ named # {}
        /\ LET ex == module.exports[CHOOSE i \in named : \A j \in named : i <= j]
           IN  /\ ex.kind.tag = "Func"
               /\ Entry(module.signatures, Entry(module.funcs, ex.kind.f).sig) =
                     [params |-> <<>>, returns |-> <<"I32">>]
               /\ Entry(module.funcs, ex.kind.f).body.tag = "Some"
ExportedBody(name) ==
    LET named == {i \in 1 .. Len(module.exports) : module.exports[i].name = name}
        ex == module.exports[CHOOSE i \in named : \A j \in named : i <= j]
    IN  Entry(module.funcs, ex.kind.f).body.val

EntryTerm(body) == Entry(body.blocks, body.entry).terminator
Literal(body, v) == IsI32Const(Entry(body.values, v))
LiteralOf(body, v) == Entry(body.values, v).op.value

\* a return of one value that is a literal
ReturnsLiteral(body) ==
    /\ EntryTerm(body).tag = "Return"
    /\ Len(EntryTerm(body).values) = 1
    /\ Literal(body, EntryTerm(body).values[1])
\* a branch carrying one literal to a block that returns exactly its parameter
BranchesToReturn(body) ==
    /\ EntryTerm(body).tag = "Br"
    /\ Len(EntryTerm(body).target.args) = 1
    /\ Literal(body, EntryTerm(body).target.args[1])
    /\ LET target == Entry(body.blocks, EntryTerm(body).target.block)
       IN  /\ target.terminator.tag = "Return"
           /\ Len(target.terminator.values) = 1
           /\ Len(target.params) >= 1
           /\ target.terminator.values[1] = target.params[1][2]
ReturnArityBroken(body) ==
    EntryTerm(body).tag = "Return" /\ Len(EntryTerm(body).values) # 1
BranchArityNotOne(body) ==
    EntryTerm(body).tag = "Br" /\ Len(EntryTerm(body).target.args) # 1

Extracted(body, fatal) ==
    IF fatal THEN AssertPanic
    ELSE IF ReturnsLiteral(body) THEN Some(LiteralOf(body, EntryTerm(body).values[1]))
    ELSE IF BranchesToReturn(body) THEN Some(LiteralOf(body, EntryTerm(body).target.args[1]))
    ELSE None

\* C7 as stated: for an exported function () -> (i32) the result is the literal of
\* a direct return or of a one-argument branch to a block returning its parameter,
\* and None for every other shape of the entry terminator, a branch carrying no or
\* several arguments included; only a return of not exactly one value is fatal.
C7_OnlyReturnArityIsFatal ==
    (ret.op = "find_global_data_by_exported_func" /\ Exported(ret.name)) =>
        ret.res = Extracted(ExportedBody(ret.name), ReturnArityBroken(ExportedBody(ret.name)))

\* what the code does: the assertion on the number of branch arguments makes a branch
\* carrying no or several arguments fatal as well
BranchArityIsFatalToo ==
    (ret.op = "find_global_data_by_exported_func" /\ Exported(ret.name)) =>
        ret.res = Extracted(ExportedBody(ret.name),
                            \/ ReturnArityBroken(ExportedBody(ret.name))
                            \/ BranchArityNotOne(ExportedBody(ret.name)))

\* the literal carried by a branch has been extracted
BranchLiteralExtracted ==
    /\ ret.op = "find_global_data_by_exported_func"
    /\ Exported(ret.name)
    /\ BranchesToReturn(ExportedBody(ret.name))
    /\ ret.res = Some(42)

====
